---- MODULE Spec2Model ----
(***************************************************************************)
(* A model of src/pdfparser.js: class PDFParser, its process-wide id       *)
(* counter and byte cache (#nextId, #binBuffer), its per-instance read     *)
(* queue (#fq), and the two handlers it attaches to the parsing engine.    *)
(* The engine itself (./lib/pdf.js) and the file system are environments.  *)
(***************************************************************************)
EXTENDS Integers, Sequences, FiniteSets, TLC

VARIABLES
    nextId,     \* static #nextId
    binBuffer,  \* static #binBuffer: sequence of [key, data] in Object.keys order
    parsers,    \* id -> the instance's private fields
    fsMTime,    \* file system: path -> its mtimeMs (Null: stat throws)
    engine,     \* id -> the parse calls the instance's engine has not ended yet
    sessions,   \* history: id -> per session, the payloads the engine emitted
    signals     \* history: id -> the pdfParser_* events the instance emitted

vars == <<nextId, binBuffer, parsers, fsMTime, engine, sessions, signals>>

--------------------------------------------------------------------------
(* Bounds of the model. *)
MaxInst == 2        \* instances constructed
MaxSessions == 2    \* loadPDF/parseBuffer calls, over all instances
MaxPayloads == 1    \* incremental payloads the engine emits per parse call
MaxMTime == 2       \* largest modification time a file reaches
MaxLiveInst == 1    \* instances, in the liveness specification
MaxLiveSessions == 2    \* loadPDF/parseBuffer calls, in the liveness specification
MaxLoads == 2       \* loadPDF calls, in the file and cache specifications
MaxCacheInst == 2   \* instances constructed on a full cache
MaxNewFiles == 2    \* files loaded that the full cache does not hold
MaxMergeInst == 1   \* instances, in the merge specification
MaxMergeSessions == 1   \* parseBuffer calls, in the merge specification
MaxMergeLen == 3    \* payloads per parse call, in the merge specification
MaxEdgeInst == 1    \* instances, in the edge specification
MaxEdgeSessions == 2    \* loadPDF/parseBuffer calls past the stat, in the edge specification
MaxEdgePayloads == 1    \* payloads per parse call, in the edge specification
MaxLifeInst == 1    \* instances, in the lifetime specification
MaxLifeSessions == 2    \* loadPDF/parseBuffer calls, in the lifetime specification
MaxSubscribers == 1 \* subscribers per instance, in the lifetime specification
MaxIdInst == 2      \* instances, in the id specification
MaxIdSessions == 2  \* loadPDF/parseBuffer calls, in the id specification
MaxReuseInst == 1   \* instances, in the reuse specification
MaxReuseSessions == 2   \* parseBuffer calls, in the reuse specification
MaxReusePayloads == 1   \* payloads per parse call, in the reuse specification

(* static #maxBinBufferCount *)
maxBinBufferCount == 10

--------------------------------------------------------------------------
(* JavaScript values.  A nullable value is <<>> (null/undefined) or <<v>>. *)
Null == <<>>
Some(v) == <<v>>
Val(n) == n[1]

(* An object is the set of its <<key, value>> properties. *)
Keys(obj) == {kv[1] : kv \in obj}

(* {...a, ...b} on objects. *)
Spread(a, b) == {kv \in a : kv[1] \notin Keys(b)} \cup b

(* A spread of null contributes no property. *)
ObjOf(n) == IF n = Null THEN {} ELSE Val(n)

(* Number -> its decimal string, as a sequence of digit characters. *)
DigitChar(d) == <<"0", "1", "2", "3", "4", "5", "6", "7", "8", "9">>[d + 1]

RECURSIVE NumToStr(_)
NumToStr(n) == IF n < 10 THEN <<DigitChar(n)>>
               ELSE NumToStr(n \div 10) \o <<DigitChar(n % 10)>>

IsDigit(c) == c \in {"0", "1", "2", "3", "4", "5", "6", "7", "8", "9"}
DigitVal(c) == CHOOSE d \in 0..9 : DigitChar(d) = c

RECURSIVE StrToNum(_)
StrToNum(s) == IF s = <<>> THEN 0
               ELSE 10 * StrToNum(SubSeq(s, 1, Len(s) - 1)) + DigitVal(s[Len(s)])

(* A property name that Object.keys lists first, in numeric order. *)
IsArrayIndex(k) ==
    /\ k # <<>>
    /\ \A n \in 1..Len(k) : IsDigit(k[n])
    /\ (Len(k) > 1 => k[1] # "0")

(* binBufferKey as if it were the path alone. *)
BinBufferKeyPathOnly(path, mtime) ==
    IF path = Null THEN <<"n", "u", "l", "l">> ELSE Val(path)

(* get binBufferKey: path + mtime.  null + null is the number 0. *)
BinBufferKey(path, mtime) ==
    IF path = Null /\ mtime = Null THEN <<"0">>
    ELSE (IF path = Null THEN <<"n", "u", "l", "l">> ELSE Val(path))
         \o (IF mtime = Null THEN <<"n", "u", "l", "l">> ELSE NumToStr(Val(mtime)))

KeyOf(P) == BinBufferKey(P.pdfFilePath, P.pdfFileMTime)

--------------------------------------------------------------------------
(* The cache object #binBuffer. *)
CacheKeys(cache) == [n \in 1..Len(cache) |-> cache[n].key]

Has(cache, k) == \E n \in 1..Len(cache) : cache[n].key = k

Lookup(cache, k) ==
    IF Has(cache, k)
    THEN Some((cache[CHOOSE n \in 1..Len(cache) : cache[n].key = k]).data)
    ELSE Null

RemoveAt(s, n) == SubSeq(s, 1, n - 1) \o SubSeq(s, n + 1, Len(s))

InsertAt(s, n, e) == SubSeq(s, 1, n - 1) \o <<e>> \o SubSeq(s, n, Len(s))

(* obj[k] = v: an existing property keeps its place, a new array index goes *)
(* among the array indices in numeric order, any other new key goes last.   *)
Put(cache, k, v) ==
    LET e == [key |-> k, data |-> v] IN
    IF Has(cache, k)
    THEN [n \in 1..Len(cache) |-> IF cache[n].key = k THEN e ELSE cache[n]]
    ELSE IF IsArrayIndex(k)
    THEN LET before == {n \in 1..Len(cache) :
                           /\ IsArrayIndex(cache[n].key)
                           /\ StrToNum(cache[n].key) < StrToNum(k)}
         IN InsertAt(cache, Cardinality(before) + 1, e)
    ELSE Append(cache, e)

--------------------------------------------------------------------------
(* Histories. *)
RECURSIVE SumLen(_, _)
SumLen(f, S) == IF S = {} THEN 0
                ELSE LET x == CHOOSE y \in S : TRUE
                     IN Len(f[x]) + SumLen(f, S \ {x})

SessionCount == SumLen(sessions, DOMAIN sessions)

(* A session, one per loadPDF/parseBuffer call that got past the stat: how it *)
(* started ("hit", "miss" or "buffer"), the cache key it started with, the     *)
(* payloads the engine emitted for it, and whether another session of the      *)
(* same instance was in flight at any time while it was; for a loadPDF also    *)
(* the file it named: the path and the modification time stat gave.            *)
NewSession(via, key, file, overlapped) ==
    [via |-> via, key |-> key, file |-> file, payloads |-> <<>>,
     overlapped |-> overlapped]

(* The sessions of instance i whose read or parse has not ended. *)
InFlight(i) ==
    {job.sess : job \in engine[i]}
        \cup {parsers[i].fq[n].sess : n \in 1..Len(parsers[i].fq)}

(* sessions, after instance i starts one more. *)
Started(i, via, key, file) ==
    [sessions EXCEPT ![i] =
        Append([s \in 1..Len(@) |->
                   IF s \in InFlight(i) THEN [@[s] EXCEPT !.overlapped = TRUE]
                   ELSE @[s]],
               NewSession(via, key, file, InFlight(i) # {}))]

(* The payload objects of the two events. *)
FormImage(data) == <<"object", "formImage", data>>
ParserError(e) == <<"object", "parserError", e>>

Event(type, payload, s, data) ==
    [type |-> type, payload |-> payload, sess |-> s, seen |-> data]

--------------------------------------------------------------------------
(* The program's mutable memory, threaded through the methods: a method is *)
(* a function from the memory before the call to the memory after it.      *)
Mem == [binBuffer |-> binBuffer, parsers |-> parsers,
        engine |-> engine, signals |-> signals]

Commit(m) ==
    /\ binBuffer' = m.binBuffer
    /\ parsers' = m.parsers
    /\ engine' = m.engine
    /\ signals' = m.signals

(* this.emit(type, payload): the subscribers run now and see this.data. *)
Emit(m, i, type, payload, s) ==
    [m EXCEPT !.signals[i] =
        Append(@, Event(type, payload, s, m.parsers[i].data))]

(* Mutant: the end marker's handler clears the data once it has emitted. *)
OnPDFJSParseDataReadyClears(m, i, data, s) ==
    IF data = Null
    THEN [Emit(m, i, "pdfParser_dataReady", FormImage(m.parsers[i].data), s)
             EXCEPT !.parsers[i].data = Null]
    ELSE [m EXCEPT !.parsers[i].data = Some(Spread(ObjOf(@), Val(data)))]

(* Mutant: the spread the other way round, {...data, ...this.#data}. *)
OnPDFJSParseDataReadyFirstWins(m, i, data, s) ==
    IF data = Null
    THEN Emit(m, i, "pdfParser_dataReady", FormImage(m.parsers[i].data), s)
    ELSE [m EXCEPT !.parsers[i].data = Some(Spread(Val(data), ObjOf(@)))]

(* #onPDFJSParseDataReady(data), for the parse call of session s *)
OnPDFJSParseDataReady(m, i, data, s) ==
    IF data = Null
    THEN Emit(m, i, "pdfParser_dataReady", FormImage(m.parsers[i].data), s)
    ELSE [m EXCEPT !.parsers[i].data = Some(Spread(ObjOf(@), Val(data)))]

(* Mutant: the error handler leaves the merged data in place. *)
OnPDFJSParserDataErrorKeepsData(m, i, data, s) ==
    Emit(m, i, "pdfParser_dataError", ParserError(data), s)

(* #onPDFJSParserDataError(data) *)
OnPDFJSParserDataError(m, i, data, s) ==
    LET m1 == [m EXCEPT !.parsers[i].data = Null]
    IN Emit(m1, i, "pdfParser_dataError", ParserError(data), s)

(* Mutant: a new parse starts on the data of the session before. *)
StartParsingPDFKeepsData(m, i, buffer, s) ==
    LET m0 == [m EXCEPT !.parsers[i].data = Some(ObjOf(@))]
        m1 == [m0 EXCEPT !.parsers[i].listeners = @ + 1]
        arg == IF buffer # Null THEN buffer
               ELSE Lookup(m1.binBuffer, KeyOf(m1.parsers[i]))
    IN IF m.parsers[i].PDFJS = Null THEN m0
       ELSE [m1 EXCEPT !.engine[i] = @ \cup {[sess |-> s, buffer |-> arg]}]

(* #startParsingPDF(buffer): every call attaches one more pair of listeners *)
(* to the engine the constructor made, then hands the bytes to it.  After   *)
(* destroy() the engine is null: line 77 throws a TypeError, line 75 done.  *)
StartParsingPDF(m, i, buffer, s) ==
    LET m0 == [m EXCEPT !.parsers[i].data = Some({})]
        m1 == [m0 EXCEPT !.parsers[i].listeners = @ + 1]
        arg == IF buffer # Null THEN buffer
               ELSE Lookup(m1.binBuffer, KeyOf(m1.parsers[i]))
    IN IF m.parsers[i].PDFJS = Null THEN m0
       ELSE [m1 EXCEPT !.engine[i] = @ \cup {[sess |-> s, buffer |-> arg]}]

(* Mutant: a hit starts the parse and then falls through to the miss path. *)
ProcessBinaryCacheNoReturn(m, i, s) ==
    IF Has(m.binBuffer, KeyOf(m.parsers[i]))
    THEN [m |-> StartParsingPDF(m, i, Null, s), ret |-> FALSE]
    ELSE IF Len(m.binBuffer) > maxBinBufferCount
    THEN LET idx == m.parsers[i].id % maxBinBufferCount
         IN [m |-> [m EXCEPT !.binBuffer = RemoveAt(@, idx + 1)], ret |-> FALSE]
    ELSE [m |-> m, ret |-> FALSE]

(* Mutant: the eviction removes the first key, whatever the id. *)
ProcessBinaryCacheEvictsFirst(m, i, s) ==
    IF Has(m.binBuffer, KeyOf(m.parsers[i]))
    THEN [m |-> StartParsingPDF(m, i, Null, s), ret |-> TRUE]
    ELSE IF Len(m.binBuffer) > maxBinBufferCount
    THEN [m |-> [m EXCEPT !.binBuffer = Tail(@)], ret |-> FALSE]
    ELSE [m |-> m, ret |-> FALSE]

(* #processBinaryCache(): [m |-> the memory after, ret |-> its result] *)
ProcessBinaryCache(m, i, s) ==
    IF Has(m.binBuffer, KeyOf(m.parsers[i]))
    THEN [m |-> StartParsingPDF(m, i, Null, s), ret |-> TRUE]
    ELSE IF Len(m.binBuffer) > maxBinBufferCount
    THEN LET idx == m.parsers[i].id % maxBinBufferCount
         IN [m |-> [m EXCEPT !.binBuffer = RemoveAt(@, idx + 1)], ret |-> FALSE]
    ELSE [m |-> m, ret |-> FALSE]

(* Mutant: a read error is swallowed: no event tells of it. *)
ProcessPDFContentSilent(m, i, err, data, s) ==
    IF err # Null
    THEN [m EXCEPT !.parsers[i].data = Null]
    ELSE LET m1 == [m EXCEPT !.binBuffer = Put(@, KeyOf(m.parsers[i]), Val(data))]
         IN StartParsingPDF(m1, i, Null, s)

(* Mutant: after a read error the callback goes on to start the parse. *)
ProcessPDFContentGoesOn(m, i, err, data, s) ==
    IF err # Null
    THEN LET m1 == [m EXCEPT !.parsers[i].data = Null]
         IN StartParsingPDF(Emit(m1, i, "pdfParser_dataError", Val(err), s),
                            i, Null, s)
    ELSE LET m1 == [m EXCEPT !.binBuffer = Put(@, KeyOf(m.parsers[i]), Val(data))]
         IN StartParsingPDF(m1, i, Null, s)

(* #processPDFContent(err, data), the callback of the read task of session s *)
ProcessPDFContent(m, i, err, data, s) ==
    IF err # Null
    THEN LET m1 == [m EXCEPT !.parsers[i].data = Null]
         IN Emit(m1, i, "pdfParser_dataError", Val(err), s)
    ELSE LET m1 == [m EXCEPT !.binBuffer = Put(@, KeyOf(m.parsers[i]), Val(data))]
         IN StartParsingPDF(m1, i, Null, s)

(* EventEmitter.emit on the engine: each attached listener runs once. *)
RECURSIVE DispatchReady(_, _, _, _, _)
DispatchReady(n, m, i, data, s) ==
    IF n = 0 THEN m
    ELSE DispatchReady(n - 1, OnPDFJSParseDataReady(m, i, data, s), i, data, s)

RECURSIVE DispatchError(_, _, _, _, _)
DispatchError(n, m, i, data, s) ==
    IF n = 0 THEN m
    ELSE DispatchError(n - 1, OnPDFJSParserDataError(m, i, data, s), i, data, s)

--------------------------------------------------------------------------
(* The file system. *)
FileBytes(p) == <<"bytes", p, Val(fsMTime[p])>>
ReadError == <<"error", "EACCES">>

--------------------------------------------------------------------------
(* The constructor as if it read #nextId without incrementing it. *)
ConstructSameId(context) ==
    LET h == Cardinality(DOMAIN parsers) IN
    /\ parsers' = [j \in (DOMAIN parsers) \cup {h} |->
                     IF j = h
                     THEN [id |-> nextId, context |-> context,
                           pdfFilePath |-> Null, pdfFileMTime |-> Null,
                           data |-> Null, PDFJS |-> Some("PDFJS"),
                           listeners |-> 0, fq |-> <<>>, subscribers |-> 0,
                           engineDestroys |-> 0, contextDestroys |-> 0]
                     ELSE parsers[j]]
    /\ nextId' = nextId
    /\ engine' = [j \in (DOMAIN engine) \cup {h} |->
                     IF j = h THEN {} ELSE engine[j]]
    /\ sessions' = [j \in (DOMAIN sessions) \cup {h} |->
                     IF j = h THEN <<>> ELSE sessions[j]]
    /\ signals' = [j \in (DOMAIN signals) \cup {h} |->
                     IF j = h THEN <<>> ELSE signals[j]]
    /\ UNCHANGED <<binBuffer, fsMTime>>

(* new PDFParser(context, needRawText, password).  The new object is the  *)
(* next one of the model; its id comes from the static counter.  Besides    *)
(* its fields the model keeps, per object: the listeners it attached to its *)
(* engine, the subscribers of its own events, and how often it called       *)
(* destroy() on its engine and on its context.                              *)
Construct(context) ==
    LET h == Cardinality(DOMAIN parsers) IN
    /\ parsers' = [j \in (DOMAIN parsers) \cup {h} |->
                     IF j = h
                     THEN [id |-> nextId, context |-> context,
                           pdfFilePath |-> Null, pdfFileMTime |-> Null,
                           data |-> Null, PDFJS |-> Some("PDFJS"),
                           listeners |-> 0, fq |-> <<>>, subscribers |-> 0,
                           engineDestroys |-> 0, contextDestroys |-> 0]
                     ELSE parsers[j]]
    /\ nextId' = nextId + 1
    /\ engine' = [j \in (DOMAIN engine) \cup {h} |->
                     IF j = h THEN {} ELSE engine[j]]
    /\ sessions' = [j \in (DOMAIN sessions) \cup {h} |->
                     IF j = h THEN <<>> ELSE sessions[j]]
    /\ signals' = [j \in (DOMAIN signals) \cup {h} |->
                     IF j = h THEN <<>> ELSE signals[j]]
    /\ UNCHANGED <<binBuffer, fsMTime>>

(* loadPDF as if a failed stat gave no modification time instead of       *)
(* throwing.                                                                 *)
LoadPDFNoThrow(i, p) ==
    /\ i \in DOMAIN parsers
    /\ LET s == Len(sessions[i]) + 1
           m1 == [Mem EXCEPT !.parsers[i].pdfFilePath = Some(p),
                             !.parsers[i].pdfFileMTime = fsMTime[p]]
           r == ProcessBinaryCache(m1, i, s)
       IN /\ IF r.ret
             THEN Commit(r.m)
             ELSE Commit([r.m EXCEPT !.parsers[i].fq =
                             Append(@, [path |-> p, sess |-> s])])
          /\ sessions' = Started(i, IF r.ret THEN "hit" ELSE "miss",
                                 Some(KeyOf(m1.parsers[i])), Null)
          /\ UNCHANGED <<nextId, fsMTime>>

(* loadPDF(pdfFilePath) *)
LoadPDF(i, p) ==
    /\ i \in DOMAIN parsers
    /\ LET s == Len(sessions[i]) + 1
           m0 == [Mem EXCEPT !.parsers[i].pdfFilePath = Some(p)]
       IN IF fsMTime[p] = Null
          THEN \* fs.statSync throws, after the path was recorded
               /\ Commit(m0)
               /\ UNCHANGED <<nextId, fsMTime, sessions>>
          ELSE LET m1 == [m0 EXCEPT !.parsers[i].pdfFileMTime = fsMTime[p]]
                   r == ProcessBinaryCache(m1, i, s)
               IN /\ IF r.ret
                     THEN Commit(r.m)
                     ELSE Commit([r.m EXCEPT !.parsers[i].fq =
                                     Append(@, [path |-> p, sess |-> s])])
                  /\ sessions' = Started(i, IF r.ret THEN "hit" ELSE "miss",
                                         Some(KeyOf(m1.parsers[i])),
                                         Some(<<p, Val(fsMTime[p])>>))
                  /\ UNCHANGED <<nextId, fsMTime>>

(* The read queue (concurrency 1) finishes its oldest task: fs.readFile     *)
(* calls back with the file's bytes, or with an error.                      *)
ReadDone(i, ok) ==
    /\ i \in DOMAIN parsers
    /\ parsers[i].fq # <<>>
    /\ LET task == Head(parsers[i].fq)
           m0 == [Mem EXCEPT !.parsers[i].fq = Tail(@)]
       IN IF ok
          THEN Commit(ProcessPDFContent(m0, i, Null, Some(FileBytes(task.path)),
                                        task.sess))
          ELSE Commit(ProcessPDFContent(m0, i, Some(ReadError), Null, task.sess))
    /\ UNCHANGED <<nextId, fsMTime, sessions>>

(* parseBuffer(pdfBuffer) *)
ParseBuffer(i, pdfBuffer) ==
    /\ i \in DOMAIN parsers
    /\ Commit(StartParsingPDF(Mem, i, pdfBuffer, Len(sessions[i]) + 1))
    /\ sessions' = Started(i, "buffer", Null, Null)
    /\ UNCHANGED <<nextId, fsMTime>>

(* on(event, listener), inherited from EventEmitter: one more subscriber *)
Subscribe(i) ==
    /\ i \in DOMAIN parsers
    /\ parsers' = [parsers EXCEPT ![i].subscribers = @ + 1]
    /\ UNCHANGED <<nextId, binBuffer, fsMTime, engine, sessions, signals>>

(* The engine's destroy(): it releases its resources; the parse calls it   *)
(* was running emit nothing more.                                           *)
PDFJSDestroy(jobs) == {}

(* destroy() as if it dropped the context without calling its destroy(). *)
DestroyNoTeardown(i) ==
    /\ i \in DOMAIN parsers
    /\ LET P == parsers[i]
           P1 == [P EXCEPT !.subscribers = 0]
           P2 == [P1 EXCEPT !.context = Null]
           P3 == [P2 EXCEPT !.pdfFilePath = Null, !.pdfFileMTime = Null,
                            !.data = Null]
       IN IF P.PDFJS = Null
          THEN /\ parsers' = [parsers EXCEPT ![i] = P3]
               /\ engine' = engine
          ELSE /\ parsers' = [parsers EXCEPT ![i] =
                                 [P3 EXCEPT !.engineDestroys = @ + 1,
                                            !.PDFJS = Null]]
               /\ engine' = [engine EXCEPT ![i] = PDFJSDestroy(@)]
    /\ UNCHANGED <<nextId, binBuffer, fsMTime, sessions, signals>>

(* destroy().  A second call finds #PDFJS null: line 167 throws a TypeError *)
(* after lines 154-165 ran.                                                 *)
Destroy(i) ==
    /\ i \in DOMAIN parsers
    /\ LET P == parsers[i]
           P1 == [P EXCEPT !.subscribers = 0]
           P2 == IF P1.context # Null
                 THEN [P1 EXCEPT !.contextDestroys = @ + 1, !.context = Null]
                 ELSE P1
           P3 == [P2 EXCEPT !.pdfFilePath = Null, !.pdfFileMTime = Null,
                            !.data = Null]
       IN IF P.PDFJS = Null
          THEN /\ parsers' = [parsers EXCEPT ![i] = P3]
               /\ engine' = engine
          ELSE /\ parsers' = [parsers EXCEPT ![i] =
                                 [P3 EXCEPT !.engineDestroys = @ + 1,
                                            !.PDFJS = Null]]
               /\ engine' = [engine EXCEPT ![i] = PDFJSDestroy(@)]
    /\ UNCHANGED <<nextId, binBuffer, fsMTime, sessions, signals>>

(* The file is rewritten: its modification time moves on. *)
Touch(p) ==
    /\ fsMTime[p] # Null
    /\ Val(fsMTime[p]) < MaxMTime
    /\ fsMTime' = [fsMTime EXCEPT ![p] = Some(Val(@) + 1)]
    /\ UNCHANGED <<nextId, binBuffer, parsers, engine, sessions, signals>>

--------------------------------------------------------------------------
(* The parsing engine, per parse call: incremental payloads, then either    *)
(* the null end marker or an error.  Its emit runs the attached listeners.  *)
EnginePayload(i, job, d) ==
    /\ i \in DOMAIN parsers
    /\ job \in engine[i]
    /\ Commit(DispatchReady(parsers[i].listeners, Mem, i, Some(d), job.sess))
    /\ sessions' = [sessions EXCEPT ![i][job.sess].payloads = Append(@, d)]
    /\ UNCHANGED <<nextId, fsMTime>>

EngineEnd(i, job) ==
    /\ i \in DOMAIN parsers
    /\ job \in engine[i]
    /\ LET m0 == [Mem EXCEPT !.engine[i] = @ \ {job}]
       IN Commit(DispatchReady(parsers[i].listeners, m0, i, Null, job.sess))
    /\ UNCHANGED <<nextId, fsMTime, sessions>>

EngineError(i, job, e) ==
    /\ i \in DOMAIN parsers
    /\ job \in engine[i]
    /\ LET m0 == [Mem EXCEPT !.engine[i] = @ \ {job}]
       IN Commit(DispatchError(parsers[i].listeners, m0, i, e, job.sess))
    /\ UNCHANGED <<nextId, fsMTime, sessions>>

--------------------------------------------------------------------------
(* Inputs. *)
PathA == <<"a">>
PathB == <<"b">>
PathX == <<"x">>
Buffer1 == Some(<<"buffer", 1>>)
Context == Some("context")
InvalidPDF == <<"error", "InvalidPDF">>
Page1 == {<<"page1", "{}">>}

EmptyFn == [j \in {} |-> <<>>]

(* The state of a fresh process whose file system holds `paths`. *)
InitWith(paths) ==
    /\ nextId = 0
    /\ binBuffer = <<>>
    /\ parsers = EmptyFn
    /\ engine = EmptyFn
    /\ sessions = EmptyFn
    /\ signals = EmptyFn
    /\ fsMTime = [p \in paths |-> IF p = PathX THEN Null ELSE Some(1)]

--------------------------------------------------------------------------
(* The main specification: up to MaxInst instances load one file or parse   *)
(* one buffer, MaxSessions times in all, in any interleaving.               *)
Init == InitWith({PathA})

Next ==
    \/ nextId < MaxInst /\ Construct(Null)
    \/ \E i \in DOMAIN parsers :
           SessionCount < MaxSessions /\ LoadPDF(i, PathA)
    \/ \E i \in DOMAIN parsers :
           SessionCount < MaxSessions /\ ParseBuffer(i, Buffer1)
    \/ \E i \in DOMAIN parsers, ok \in BOOLEAN : ReadDone(i, ok)
    \/ \E i \in DOMAIN parsers : \E job \in engine[i] :
           \/ /\ Len(sessions[i][job.sess].payloads) < MaxPayloads
              /\ EnginePayload(i, job, Page1)
           \/ EngineEnd(i, job)
           \/ EngineError(i, job, InvalidPDF)

Spec == Init /\ [][Next]_vars

--------------------------------------------------------------------------
(* What the claims speak of. *)

(* The events instance i emitted for its session s. *)
EventsOf(i, s) == {n \in 1..Len(signals[i]) : signals[i][n].sess = s}

IsReady(ev) == ev.type = "pdfParser_dataReady"
IsError(ev) == ev.type = "pdfParser_dataError"

(* x is an object {parserError: ...} *)
IsParserError(x) == Len(x) = 3 /\ x[1] = "object" /\ x[2] = "parserError"

(* x is the read error, bare or wrapped *)
CarriesReadError(x) == x = ReadError \/ x = ParserError(ReadError)

(* The union of the payloads' properties, each key with the value of the    *)
(* last payload that has it.                                                 *)
LastWins(seq) ==
    {kv \in UNION {seq[n] : n \in 1..Len(seq)} :
        \E n \in 1..Len(seq) :
            /\ kv \in seq[n]
            /\ \A k \in (n + 1)..Len(seq) : kv[1] \notin Keys(seq[k])}

(* C1: a session that ran alone on its instance (no other session of the    *)
(* instance in flight while it was) never has two terminal events, be they  *)
(* two pdfParser_dataReady, two pdfParser_dataError or one of each.  The    *)
(* claim says so of every session, these included.                          *)
TerminalExclusivity ==
    \A i \in DOMAIN signals : \A s \in 1..Len(sessions[i]) :
        ~sessions[i][s].overlapped => Cardinality(EventsOf(i, s)) <= 1

(* C6: every pdfParser_dataError carries an object {parserError: error},    *)
(* and a session whose disk read failed has exactly one event, an error.    *)
ErrorPayloadShape ==
    \A i \in DOMAIN signals : \A n \in 1..Len(signals[i]) :
        LET ev == signals[i][n] IN
        /\ IsError(ev) => IsParserError(ev.payload)
        /\ CarriesReadError(ev.payload) =>
               /\ Cardinality(EventsOf(i, ev.sess)) = 1
               /\ IsError(ev)

ReadyPayloadAlone ==
    \A i \in DOMAIN signals : \A n \in 1..Len(signals[i]) :
        LET ev == signals[i][n] IN
        (IsReady(ev) /\ ~sessions[i][ev.sess].overlapped) =>
            ev.payload = FormImage(Some(LastWins(sessions[i][ev.sess].payloads)))

(* C9, as claimed: the same of every session.                               *)
ReadyPayload ==
    \A i \in DOMAIN signals : \A n \in 1..Len(signals[i]) :
        LET ev == signals[i][n] IN
        IsReady(ev) =>
            ev.payload = FormImage(Some(LastWins(sessions[i][ev.sess].payloads)))

(* C9 witness: {page1: {}} then the end marker gave {formImage: {page1: {}}}, *)
(* in a second session of the instance.                                       *)
ReadyPage1 ==
    \E i \in DOMAIN signals : \E n \in 1..Len(signals[i]) :
        /\ IsReady(signals[i][n])
        /\ signals[i][n].sess = 2
        /\ ~sessions[i][2].overlapped
        /\ sessions[i][2].payloads = <<Page1>>
        /\ signals[i][n].payload = FormImage(Some(Page1))

(* C18: the pdfParser_dataReady of a session that an instance ran after an  *)
(* earlier one, alone, carries an object whose keys are all keys of          *)
(* payloads the engine emitted for that session.                             *)
FreshMergeState ==
    \A i \in DOMAIN signals : \A n \in 1..Len(signals[i]) :
        LET ev == signals[i][n]
            ps == sessions[i][ev.sess].payloads
        IN (IsReady(ev) /\ ev.sess >= 2 /\ ~sessions[i][ev.sess].overlapped) =>
               /\ ev.payload[3] # Null
               /\ Keys(Val(ev.payload[3]))
                      \subseteq UNION {Keys(ps[k]) : k \in 1..Len(ps)}

(* C18 witness: the first session of an instance got {page1: {}}; its       *)
(* second session, started after the first had ended, got no payload and    *)
(* delivered {formImage: {}}.                                                *)
SecondSessionEmpty ==
    \E i \in DOMAIN signals : \E n \in 1..Len(signals[i]) :
        /\ IsReady(signals[i][n])
        /\ signals[i][n].sess = 2
        /\ ~sessions[i][2].overlapped
        /\ sessions[i][1].payloads = <<Page1>>
        /\ sessions[i][2].payloads = <<>>
        /\ signals[i][n].payload = FormImage(Some({}))

--------------------------------------------------------------------------
(* The liveness specification: loads and parses as in the main one, under  *)
(* the scheduling the code relies on: a queued read completes (fs.readFile  *)
(* calls back), and the engine ends each parse call with its end marker or  *)
(* an error.                                                                 *)
LiveNext ==
    \/ nextId < MaxLiveInst /\ Construct(Null)
    \/ \E i \in DOMAIN parsers :
           SessionCount < MaxLiveSessions /\ LoadPDF(i, PathA)
    \/ \E i \in DOMAIN parsers :
           SessionCount < MaxLiveSessions /\ ParseBuffer(i, Buffer1)
    \/ \E i \in DOMAIN parsers, ok \in BOOLEAN : ReadDone(i, ok)
    \/ \E i \in DOMAIN parsers : \E job \in engine[i] :
           \/ EngineEnd(i, job)
           \/ EngineError(i, job, InvalidPDF)

Fairness ==
    \A i \in 0..(MaxLiveInst - 1) :
        /\ WF_vars(\E ok \in BOOLEAN : ReadDone(i, ok))
        /\ \A s \in 1..MaxLiveSessions :
               WF_vars(/\ i \in DOMAIN parsers
                       /\ \E job \in engine[i] :
                              /\ job.sess = s
                              /\ \/ EngineEnd(i, job)
                                 \/ EngineError(i, job, InvalidPDF))

LiveSpec == Init /\ [][LiveNext]_vars /\ Fairness

--------------------------------------------------------------------------
(* The file specification: loads of one file that is rewritten meanwhile.   *)
FileInit == InitWith({PathA})

FileNext ==
    \/ nextId < MaxInst /\ Construct(Null)
    \/ \E i \in DOMAIN parsers :
           SessionCount < MaxLoads /\ LoadPDF(i, PathA)
    \/ \E i \in DOMAIN parsers, ok \in BOOLEAN : ReadDone(i, ok)
    \/ Touch(PathA)
    \/ \E i \in DOMAIN parsers : \E job \in engine[i] : EngineEnd(i, job)

FileSpec == FileInit /\ [][FileNext]_vars

(* C4, as claimed: of the loadPDF calls that name one path at one           *)
(* modification time (one cache key), at most one enqueues a read task.     *)
OneReadPerKey ==
    \A i \in DOMAIN sessions, j \in DOMAIN sessions :
        \A s \in 1..Len(sessions[i]), u \in 1..Len(sessions[j]) :
            (/\ <<i, s>> # <<j, u>>
             /\ sessions[i][s].key # Null
             /\ sessions[i][s].key = sessions[j][u].key)
                => ~(sessions[i][s].via = "miss" /\ sessions[j][u].via = "miss")

(* C4, as amended: a loadPDF called while the cache holds an entry under    *)
(* the path's key enqueues no read task and hands the cached bytes to the   *)
(* engine.                                                                   *)
CachedLoadReadsNothing ==
    [][\A i \in DOMAIN parsers :
          LET key == BinBufferKey(Some(PathA), fsMTime[PathA]) IN
          (LoadPDF(i, PathA) /\ Has(binBuffer, key)) =>
              /\ parsers'[i].fq = parsers[i].fq
              /\ \E job \in engine'[i] \ engine[i] :
                     job.buffer = Lookup(binBuffer, key)]_vars

(* C4 witness: two instances loaded the same path at the same modification  *)
(* time; the first read the file, the second was served from the cache.     *)
CachedSecondLoad ==
    \E i \in DOMAIN sessions, j \in DOMAIN sessions :
        /\ i # j
        /\ sessions[i] # <<>> /\ sessions[j] # <<>>
        /\ sessions[i][1].via = "miss"
        /\ sessions[j][1].via = "hit"
        /\ sessions[i][1].key = sessions[j][1].key
        /\ \E job \in engine[j] : job.buffer = Some(<<"bytes", PathA, 1>>)

(* The read of session s of instance i has completed without an error. *)
ReadOk(i, s) ==
    /\ sessions[i][s].via = "miss"
    /\ \A n \in 1..Len(parsers[i].fq) : parsers[i].fq[n].sess # s
    /\ \A n \in EventsOf(i, s) : ~CarriesReadError(signals[i][n].payload)

--------------------------------------------------------------------------
(* The cache specification: the process has loaded maxBinBufferCount files, *)
(* one per instance, and those instances are gone; new instances load more. *)
FillerPath(n) == <<"f">> \o NumToStr(n)
NewPath(n) == <<"n">> \o NumToStr(n)
CachePaths == {FillerPath(n) : n \in 1..maxBinBufferCount}
                  \cup {NewPath(n) : n \in 1..MaxNewFiles}

CacheInit ==
    /\ nextId = maxBinBufferCount
    /\ binBuffer = [n \in 1..maxBinBufferCount |->
                       [key |-> BinBufferKey(Some(FillerPath(n)), Some(1)),
                        data |-> <<"bytes", FillerPath(n), 1>>]]
    /\ parsers = EmptyFn
    /\ engine = EmptyFn
    /\ sessions = EmptyFn
    /\ signals = EmptyFn
    /\ fsMTime = [p \in CachePaths |-> Some(1)]

CacheNext ==
    \/ nextId < maxBinBufferCount + MaxCacheInst /\ Construct(Null)
    \/ \E i \in DOMAIN parsers, n \in 1..MaxNewFiles :
           SessionCount < MaxLoads /\ LoadPDF(i, NewPath(n))
    \/ \E i \in DOMAIN parsers :
           SessionCount < MaxLoads /\ LoadPDF(i, FillerPath(1))
    \/ \E i \in DOMAIN parsers, ok \in BOOLEAN : ReadDone(i, ok)
    \/ \E i \in DOMAIN parsers : \E job \in engine[i] : EngineEnd(i, job)

CacheSpec == CacheInit /\ [][CacheNext]_vars

(* No read is pending and no callback is running. *)
AtRest == \A i \in DOMAIN parsers : parsers[i].fq = <<>>

(* C2: with no load in progress, the cache holds at most maxBinBufferCount  *)
(* entries.                                                                  *)
CacheBoundedAtRest == AtRest => Len(binBuffer) <= maxBinBufferCount

(* C3: the cache never holds more than maxBinBufferCount + 1 entries.       *)
CacheOvershootsByOne == Len(binBuffer) <= maxBinBufferCount + 1

(* C16: a loadPDF that finds no entry under its key while the cache holds  *)
(* more than maxBinBufferCount entries removes the entry at position        *)
(* id mod maxBinBufferCount (counted from 0) of the key list and leaves the *)
(* other entries as they were, in their order; and no other step removes    *)
(* a key from the cache.                                                     *)
EvictsAtIdModMax ==
    [][/\ \A i \in DOMAIN parsers : \A p \in DOMAIN fsMTime :
             (/\ Len(binBuffer) > maxBinBufferCount
              /\ ~Has(binBuffer, BinBufferKey(Some(p), fsMTime[p]))
              /\ LoadPDF(i, p)) =>
                 LET idx == parsers[i].id % maxBinBufferCount IN
                 /\ Len(binBuffer') = Len(binBuffer) - 1
                 /\ \A n \in 1..Len(binBuffer') :
                        binBuffer'[n] = binBuffer[IF n <= idx THEN n ELSE n + 1]
       /\ (\E n \in 1..Len(binBuffer) : ~Has(binBuffer', binBuffer[n].key)) =>
             \E i \in DOMAIN parsers : \E p \in DOMAIN fsMTime :
                 /\ Len(binBuffer) > maxBinBufferCount
                 /\ ~Has(binBuffer, BinBufferKey(Some(p), fsMTime[p]))
                 /\ LoadPDF(i, p)]_vars

(* C16 witness: the instance with id maxBinBufferCount + 1 missed on a      *)
(* cache of maxBinBufferCount + 1 entries: the second key is gone, the      *)
(* first and the third are still there.                                      *)
SecondKeyEvicted ==
    /\ Len(binBuffer) >= maxBinBufferCount
    /\ Has(binBuffer, BinBufferKey(Some(FillerPath(1)), Some(1)))
    /\ ~Has(binBuffer, BinBufferKey(Some(FillerPath(2)), Some(1)))
    /\ Has(binBuffer, BinBufferKey(Some(FillerPath(3)), Some(1)))

--------------------------------------------------------------------------
(* The merge specification: the engine emits any sequence of up to          *)
(* MaxMergeLen payloads out of {a: 1}, {b: 2}, {a: 3}.                      *)
A1 == {<<"a", "1">>}
B2 == {<<"b", "2">>}
A3 == {<<"a", "3">>}

MergeInit == InitWith({PathA})

MergeNext ==
    \/ nextId < MaxMergeInst /\ Construct(Null)
    \/ \E i \in DOMAIN parsers :
           SessionCount < MaxMergeSessions /\ ParseBuffer(i, Buffer1)
    \/ \E i \in DOMAIN parsers : \E job \in engine[i] :
           \/ \E d \in {A1, B2, A3} :
                  /\ Len(sessions[i][job.sess].payloads) < MaxMergeLen
                  /\ EnginePayload(i, job, d)
           \/ EngineEnd(i, job)
           \/ EngineError(i, job, InvalidPDF)

MergeSpec == MergeInit /\ [][MergeNext]_vars

(* C10: while a session that runs alone on its instance is parsing, the     *)
(* instance's data has as keys the union of the keys of the payloads the    *)
(* engine emitted so far, each with the value of the last payload that had  *)
(* it.                                                                       *)
MergeLastWriteWins ==
    \A i \in DOMAIN parsers : \A job \in engine[i] :
        LET ps == sessions[i][job.sess].payloads
            R == ObjOf(parsers[i].data)
        IN ~sessions[i][job.sess].overlapped =>
               /\ parsers[i].data # Null
               /\ Keys(R) = UNION {Keys(ps[n]) : n \in 1..Len(ps)}
               /\ \A kv \in R :
                      \E n \in 1..Len(ps) :
                          /\ kv \in ps[n]
                          /\ \A k \in (n + 1)..Len(ps) : kv[1] \notin Keys(ps[k])

(* C10 witness: {a: 1}, {b: 2}, {a: 3} merged to {a: 3, b: 2}.              *)
MergedA3B2 ==
    \E i \in DOMAIN parsers : \E job \in engine[i] :
        /\ sessions[i][job.sess].payloads = <<A1, B2, A3>>
        /\ parsers[i].data = Some({<<"a", "3">>, <<"b", "2">>})

--------------------------------------------------------------------------
(* The edge specification: besides a file that is there, loadPDF is given   *)
(* a path whose stat throws, and parseBuffer is given null.                 *)
EdgeInit == InitWith({PathA, PathX})

EdgeNext ==
    \/ nextId < MaxEdgeInst /\ Construct(Null)
    \/ \E i \in DOMAIN parsers :
           SessionCount < MaxEdgeSessions /\ LoadPDF(i, PathA)
    \/ \E i \in DOMAIN parsers : LoadPDF(i, PathX)
    \/ \E i \in DOMAIN parsers :
           SessionCount < MaxEdgeSessions /\ ParseBuffer(i, Buffer1)
    \/ \E i \in DOMAIN parsers :
           SessionCount < MaxEdgeSessions /\ ParseBuffer(i, Null)
    \/ \E i \in DOMAIN parsers, ok \in BOOLEAN : ReadDone(i, ok)
    \/ \E i \in DOMAIN parsers : \E job \in engine[i] :
           \/ /\ Len(sessions[i][job.sess].payloads) < MaxEdgePayloads
              /\ EnginePayload(i, job, Page1)
           \/ EngineEnd(i, job)

EdgeSpec == EdgeInit /\ [][EdgeNext]_vars

(* C12: a loadPDF whose stat throws emits no event, enqueues no read,       *)
(* starts no parse, and leaves the cache and the instance's data as they    *)
(* were.                                                                     *)
StatFailureIsSilent ==
    [][\A i \in DOMAIN parsers :
          LoadPDF(i, PathX) =>
              /\ signals' = signals
              /\ parsers'[i].fq = parsers[i].fq
              /\ engine' = engine
              /\ binBuffer' = binBuffer
              /\ parsers'[i].data = parsers[i].data]_vars

(* C12 witness: loadPDF of the unreadable path was called on an instance    *)
(* that had parsed the readable file; its data and the cache entry are      *)
(* still there.                                                              *)
StatFailedAfterLoad ==
    \E i \in DOMAIN parsers :
        /\ parsers[i].pdfFilePath = Some(PathX)
        /\ parsers[i].pdfFileMTime = Some(1)
        /\ parsers[i].data = Some(Page1)
        /\ Has(binBuffer, BinBufferKey(Some(PathA), Some(1)))
        /\ Len(signals[i]) = 1

(* C13: parseBuffer, whatever its argument, leaves the cache and the        *)
(* instance's path and modification time as they were, and hands its        *)
(* argument to the engine.                                                   *)
ParseBufferBypassesCache ==
    [][\A i \in DOMAIN parsers : \A b \in {Buffer1, Null} :
          ParseBuffer(i, b) =>
              /\ binBuffer' = binBuffer
              /\ parsers'[i].pdfFilePath = parsers[i].pdfFilePath
              /\ parsers'[i].pdfFileMTime = parsers[i].pdfFileMTime
              /\ \E job \in engine'[i] \ engine[i] : job.buffer = b]_vars

--------------------------------------------------------------------------
(* The lifetime specification: instances are constructed with or without a  *)
(* context, subscribed to, used and destroyed, in any order.                *)
LifeInit == InitWith({PathA})

LifeNext ==
    \/ \E context \in {Null, Context} :
           nextId < MaxLifeInst /\ Construct(context)
    \/ \E i \in DOMAIN parsers :
           parsers[i].subscribers < MaxSubscribers /\ Subscribe(i)
    \/ \E i \in DOMAIN parsers :
           SessionCount < MaxLifeSessions /\ LoadPDF(i, PathA)
    \/ \E i \in DOMAIN parsers :
           SessionCount < MaxLifeSessions /\ ParseBuffer(i, Buffer1)
    \/ \E i \in DOMAIN parsers, ok \in BOOLEAN : ReadDone(i, ok)
    \/ \E i \in DOMAIN parsers : \E job \in engine[i] : EngineEnd(i, job)
    \/ \E i \in DOMAIN parsers : Destroy(i)

LifeSpec == LifeInit /\ [][LifeNext]_vars

--------------------------------------------------------------------------
(* The id specification: instances are constructed, used and destroyed.     *)
IdInit == InitWith({PathA})

IdNext ==
    \/ nextId < MaxIdInst /\ Construct(Null)
    \/ \E i \in DOMAIN parsers :
           SessionCount < MaxIdSessions /\ LoadPDF(i, PathA)
    \/ \E i \in DOMAIN parsers :
           SessionCount < MaxIdSessions /\ ParseBuffer(i, Buffer1)
    \/ \E i \in DOMAIN parsers : ReadDone(i, TRUE)
    \/ \E i \in DOMAIN parsers : \E job \in engine[i] : EngineEnd(i, job)
    \/ \E i \in DOMAIN parsers : Destroy(i)

IdSpec == IdInit /\ [][IdNext]_vars

(* C14: the first instance constructed has id 0, an instance constructed   *)
(* later has a greater id (so no two ids are equal), and no step changes    *)
(* the id of an instance.                                                    *)
IdsIncreaseAndStay ==
    /\ [](\A j \in DOMAIN parsers, k \in DOMAIN parsers :
             /\ (j = 0 => parsers[j].id = 0)
             /\ (j < k => parsers[j].id < parsers[k].id))
    /\ [][\A j \in DOMAIN parsers : parsers'[j].id = parsers[j].id]_vars

(* C14 witness: two instances; the first loaded a file and was destroyed,   *)
(* the second parsed a buffer; their ids are 0 and 1.                       *)
TwoIdsAfterUse ==
    /\ DOMAIN parsers = {0, 1}
    /\ parsers[0].id = 0 /\ parsers[1].id = 1
    /\ parsers[0].engineDestroys = 1
    /\ Len(sessions[1]) = 1

(* C15: the first destroy() of an instance leaves its path, modification   *)
(* time and data null, has called the engine's destroy() once and cleared   *)
(* the engine, has removed every subscriber, and has called the context's   *)
(* destroy() once if a context was supplied and not at all otherwise,       *)
(* leaving no context.                                                       *)
SingleDestroyClears ==
    [][\A i \in DOMAIN parsers :
          (Destroy(i) /\ parsers[i].PDFJS # Null) =>
              LET P == parsers'[i] IN
              /\ P.pdfFilePath = Null /\ P.pdfFileMTime = Null /\ P.data = Null
              /\ P.PDFJS = Null /\ P.engineDestroys = 1
              /\ P.subscribers = 0
              /\ P.contextDestroys = (IF parsers[i].context # Null THEN 1 ELSE 0)
              /\ P.context = Null]_vars

(* C15 witness: an instance constructed with a context loaded the file,    *)
(* got its pdfParser_dataReady and was destroyed: the context's destroy()   *)
(* ran once.                                                                 *)
DestroyedWithContext ==
    \E i \in DOMAIN parsers :
        /\ parsers[i].PDFJS = Null /\ parsers[i].engineDestroys = 1
        /\ parsers[i].contextDestroys = 1 /\ parsers[i].context = Null
        /\ parsers[i].data = Null /\ parsers[i].pdfFilePath = Null
        /\ sessions[i] # <<>> /\ sessions[i][1].via = "miss"
        /\ signals[i] # <<>>

(* C20: when a read completes on an instance that was destroyed while the  *)
(* read was outstanding, the cache stays as it was and the instance's data, *)
(* path and modification time stay null.                                     *)
DestroyedStaysCleared ==
    [][\A i \in DOMAIN parsers : \A ok \in BOOLEAN :
          (/\ ReadDone(i, ok)
           /\ parsers[i].PDFJS = Null
           /\ parsers[i].pdfFilePath = Null) =>
              /\ binBuffer' = binBuffer
              /\ parsers'[i].data = Null
              /\ parsers'[i].pdfFilePath = Null
              /\ parsers'[i].pdfFileMTime = Null]_vars

--------------------------------------------------------------------------
(* The reuse specification: one instance runs session after session, or    *)
(* session over session, and may be destroyed; the engine's payloads are    *)
(* {a: 1} and {b: 2}.                                                        *)
ReuseInit == InitWith({PathA})

ReuseNext ==
    \/ nextId < MaxReuseInst /\ Construct(Null)
    \/ \E i \in DOMAIN parsers :
           SessionCount < MaxReuseSessions /\ ParseBuffer(i, Buffer1)
    \/ \E i \in DOMAIN parsers : \E job \in engine[i] :
           \/ \E d \in {A1, B2} :
                  /\ Len(sessions[i][job.sess].payloads) < MaxReusePayloads
                  /\ EnginePayload(i, job, d)
           \/ EngineEnd(i, job)
           \/ EngineError(i, job, InvalidPDF)
    \/ \E i \in DOMAIN parsers : Destroy(i)

ReuseSpec == ReuseInit /\ [][ReuseNext]_vars

--------------------------------------------------------------------------
(* The path specification: loads of two files, on one instance or two.      *)
PathInit == InitWith({PathA, PathB})

PathNext ==
    \/ nextId < MaxInst /\ Construct(Null)
    \/ \E i \in DOMAIN parsers, p \in {PathA, PathB} :
           SessionCount < MaxLoads /\ LoadPDF(i, p)
    \/ \E i \in DOMAIN parsers : ReadDone(i, TRUE)
    \/ \E i \in DOMAIN parsers : \E job \in engine[i] : EngineEnd(i, job)

PathSpec == PathInit /\ [][PathNext]_vars

(* C19: every cache entry holds bytes read from the path its key begins     *)
(* with, and the engine is handed, for a loadPDF, bytes of the path the     *)
(* call named.                                                               *)
EntriesHoldTheirPath ==
    /\ \A n \in 1..Len(binBuffer) :
           \E t \in 1..MaxMTime :
               binBuffer[n].key = BinBufferKey(Some(binBuffer[n].data[2]), Some(t))
    /\ \A i \in DOMAIN parsers : \A job \in engine[i] :
           sessions[i][job.sess].file # Null =>
               /\ job.buffer # Null
               /\ Val(job.buffer)[2] = Val(sessions[i][job.sess].file)[1]

====
